---- MODULE Spec2Model ----
(***************************************************************************)
(* Model of the file-backed pastebin service of src/main.py.               *)
(*                                                                         *)
(* Every handler is an asyncio coroutine; its file I/O runs in aiofiles'   *)
(* thread pool, so handlers interleave at every await and the system calls *)
(* of different requests are the atomic steps.  The store is the directory *)
(* "pastes": <id>.txt holds the content, <id>.json the metadata.           *)
(***************************************************************************)
EXTENDS Integers, Sequences, FiniteSets, TLC

(* ---------------- bounds of the model ---------------- *)

\* the clock (datetime.utcnow, file mtime) runs from 1 to MaxTime
MaxTime == 3

\* ids uuid4().hex[:8] can return in the model; two, so that creates can
\* receive distinct ids and can collide
NewIds == {"p1", "p2"}

\* pastes a previous run of the service may have left in the directory
OldIds == {"o0", "o1", "o2", "o3", "o4", "o5", "o6", "o7", "o8", "o9"}

Ids == NewIds \cup OldIds

\* the forms a client submits: content and title are sequences of characters
Submissions ==
  {[content |-> <<"a">>, title |-> <<"t">>],
   [content |-> <<"CR", "LF">>, title |-> <<>>]}
\* the "expires" form field a client may send
Tokens == {"never", "1s"}
\* str(e) of the exception an I/O call may raise
Errors == {"ENOSPC"}

(* ---------------- program constants ---------------- *)

\* top_pastes / recent_pastes keep the first 10 entries
TopN == 10
\* len(json.dumps(meta, indent=2)) without the title's and the counter's characters
FullBase == 144
\* len(json.dumps({"views": n}, indent=2)) without the counter's characters
BareBase == 15

VARIABLES now, txt, meta, creator, viewer, lister, ping

vars == <<now, txt, meta, creator, viewer, lister, ping>>

\* request slots: each slot serves one request; the server fills c1 before
\* c2 and v1 before v2
Creators == {"c1", "c2"}
Viewers == {"v1", "v2"}
Listers == {"l1"}

(* ---------------- text files ---------------- *)

\* UTF-8 width of a character (the files are opened in text mode with the
\* locale's encoding, UTF-8)
Width(ch) == IF ch = "euro" THEN 3 ELSE 1

RECURSIVE ByteLen(_)
ByteLen(s) == IF s = <<>> THEN 0 ELSE Width(Head(s)) + ByteLen(Tail(s))

\* f.read() of a file opened "r": universal newlines turn "\r\n" and "\r"
\* into "\n"
RECURSIVE ReadText(_)
ReadText(s) ==
  IF s = <<>> THEN <<>>
  ELSE IF Head(s) = "CR"
       THEN IF Len(s) >= 2 /\ s[2] = "LF"
            THEN <<"LF">> \o ReadText(Tail(Tail(s)))
            ELSE <<"LF">> \o ReadText(Tail(s))
       ELSE <<Head(s)>> \o ReadText(Tail(s))

\* f.write(content) of a file opened "w" on Linux: "\n" stays "\n"
WriteText(s) == s

NoTxt == [exists |-> FALSE, data |-> <<>>, mtime |-> 0]

(* ---------------- JSON metadata files ---------------- *)

\* A metadata file is the stack of the writes at offset 0 that are still
\* (partly) visible, newest first, with strictly increasing lengths: a write
\* shorter than the file leaves the tail of the older bytes behind it.
\* cut marks a document whose end was truncated away.

Digits(n) == IF n < 10 THEN 1 ELSE 2

Get(doc, key, default) == IF key \in DOMAIN doc THEN doc[key] ELSE default

\* len(json.dumps(doc, indent=2))
JsonLen(doc) ==
  IF "title" \in DOMAIN doc
  THEN FullBase + Len(doc.title) + Digits(doc.views)
  ELSE BareBase + Digits(doc.views)

NoMeta == [exists |-> FALSE, segs |-> <<>>]

RECURSIVE DropCovered(_, _)
DropCovered(segs, n) ==
  IF segs = <<>> THEN <<>>
  ELSE IF Head(segs).len <= n THEN DropCovered(Tail(segs), n)
       ELSE segs

\* write(2) of the whole document at offset 0
Overlay(segs, doc) ==
  <<[doc |-> doc, len |-> JsonLen(doc), cut |-> FALSE]>>
     \o DropCovered(segs, JsonLen(doc))

\* ftruncate(2) to n bytes; prev is the length of the newer segments
RECURSIVE TruncateFrom(_, _, _)
TruncateFrom(segs, n, prev) ==
  IF segs = <<>> THEN <<>>
  ELSE IF Head(segs).len <= n
       THEN <<Head(segs)>> \o TruncateFrom(Tail(segs), n, Head(segs).len)
       ELSE IF prev < n
            THEN <<[doc |-> Head(segs).doc, len |-> n, cut |-> TRUE]>>
            ELSE <<>>

Truncate(segs, n) == TruncateFrom(segs, n, 0)

\* json.loads(raw) succeeds
Parses(segs) == Len(segs) = 1 /\ ~segs[1].cut

\* view_paste: json.loads(raw), {} on JSONDecodeError
EmptyDoc == [k \in {} |-> 0]
Loads(segs) == IF Parses(segs) THEN segs[1].doc ELSE EmptyDoc

(* ---------------- create_paste ---------------- *)

IdleCreator ==
  [pc |-> "idle", id |-> "", content |-> <<>>, title |-> <<>>,
   expires |-> "", created_at |-> 0, status |-> 0, details |-> ""]

\* line 39: the handler declares no expires parameter and stores "never"
Expires(token) == "never"

\* lines 49-56
NewMeta(title, expires, t) ==
  [title |-> title, syntax |-> "none", visibility |-> "public",
   expires |-> expires, created_at |-> t, views |-> 0]

\* lines 61-66: the except branch; the response carries str(e)
ErrorBody(e) == [error |-> "Internal Server Error", details |-> e]

Fail500(c, e) ==
  creator' = [creator EXCEPT ![c].pc = "done", ![c].status = 500,
                             ![c].created_at = 0,
                             ![c].details = ErrorBody(e).details]

\* lines 39-45: draw the id, open <id>.txt with "w" (creates or truncates it)
CreateOpenTxt(c) ==
  /\ creator[c].pc = "idle"
  /\ c = "c2" => creator["c1"].pc # "idle"
  /\ \E id \in NewIds, sub \in Submissions, token \in Tokens :
       LET content == sub.content
           title == sub.title
           started == [creator[c] EXCEPT !.id = id, !.content = content,
                                         !.title = title,
                                         !.expires = Expires(token)]
       IN \/ /\ txt' = [txt EXCEPT ![id] =
                          [exists |-> TRUE, data |-> <<>>, mtime |-> now]]
             /\ creator' = [creator EXCEPT ![c] = [started EXCEPT !.pc = "txt_open"]]
          \/ /\ \E e \in Errors :
                  creator' = [creator EXCEPT ![c] =
                     [started EXCEPT !.pc = "done", !.status = 500,
                                     !.details = ErrorBody(e).details]]
             /\ UNCHANGED txt
  /\ UNCHANGED <<ping, now, meta, viewer, lister>>

\* CreateWriteTxt through one path shared by all requests
CreateWriteTxtShared(c) ==
  /\ creator[c].pc = "txt_open"
  /\ \/ /\ txt' = [txt EXCEPT !["p1"] =
                      [exists |-> TRUE, data |-> WriteText(creator[c].content),
                       mtime |-> now]]
        /\ creator' = [creator EXCEPT ![c].pc = "txt_closed"]
     \/ /\ \E e \in Errors : Fail500(c, e)
        /\ UNCHANGED txt
  /\ UNCHANGED <<ping, now, meta, viewer, lister>>

\* lines 45-46: the buffered content reaches the file when it is closed
CreateWriteTxt(c) ==
  /\ creator[c].pc = "txt_open"
  /\ \/ /\ txt' = [txt EXCEPT ![creator[c].id] =
                      [exists |-> TRUE, data |-> WriteText(creator[c].content),
                       mtime |-> now]]
        /\ creator' = [creator EXCEPT ![c].pc = "txt_closed"]
     \/ /\ \E e \in Errors : Fail500(c, e)
        /\ UNCHANGED txt
  /\ UNCHANGED <<ping, now, meta, viewer, lister>>

\* lines 49-57: build meta (created_at = utcnow()), open <id>.json with "w"
CreateOpenMeta(c) ==
  /\ creator[c].pc = "txt_closed"
  /\ \/ /\ meta' = [meta EXCEPT ![creator[c].id] = [exists |-> TRUE, segs |-> <<>>]]
        /\ creator' = [creator EXCEPT ![c].pc = "meta_open", ![c].created_at = now]
     \/ /\ \E e \in Errors : Fail500(c, e)
        /\ UNCHANGED meta
  /\ UNCHANGED <<ping, now, txt, viewer, lister>>

\* lines 57-60: the buffered JSON is written at offset 0 on close; 200
CreateWriteMeta(c) ==
  /\ creator[c].pc = "meta_open"
  /\ \/ /\ meta' = [meta EXCEPT ![creator[c].id].segs =
                       Overlay(@, NewMeta(creator[c].title, creator[c].expires,
                                          creator[c].created_at))]
        /\ creator' = [creator EXCEPT ![c].pc = "done", ![c].status = 200,
                                      ![c].created_at = 0]
     \/ /\ \E e \in Errors : Fail500(c, e)
        /\ UNCHANGED meta
  /\ UNCHANGED <<ping, now, txt, viewer, lister>>

(* ---------------- view_paste ---------------- *)

IdleViewer ==
  [pc |-> "idle", id |-> "", content |-> <<>>, data |-> EmptyDoc,
   title |-> <<>>, status |-> 0, issuedAt |-> 0]

\* a title that shows the paste id
IdTitle(id) == <<id>>

\* obj.get("title", pid) or pid
TitleOr(doc, id) ==
  IF Get(doc, "title", IdTitle(id)) = <<>> THEN IdTitle(id)
  ELSE Get(doc, "title", IdTitle(id))

\* Bump that ignores the stored counter
BumpOnce(data) ==
  [k \in DOMAIN data \cup {"views"} |->
     IF k = "views" THEN 1 ELSE data[k]]

\* line 115
Bump(data) ==
  [k \in DOMAIN data \cup {"views"} |->
     IF k = "views" THEN Get(data, "views", 0) + 1 ELSE data[k]]

\* Found with a liveness test against created_at plus one second
FoundLive(id) ==
  /\ txt[id].exists
  /\ ~(/\ meta[id].exists
       /\ Parses(meta[id].segs)
       /\ "created_at" \in DOMAIN meta[id].segs[1].doc
       /\ now > meta[id].segs[1].doc.created_at + 1)

\* Found without the test
FoundAlways(id) == TRUE

\* lines 99-100: the only test view_paste makes before it serves a paste
Found(id) == txt[id].exists

\* lines 96-104: 404 when <id>.txt is missing, else read it
ViewReadTxt(v) ==
  /\ viewer[v].pc = "idle"
  /\ v = "v2" => viewer["v1"].pc # "idle"
  /\ \E id \in NewIds :
       IF ~Found(id)
       THEN viewer' = [viewer EXCEPT ![v].pc = "done", ![v].id = id,
                                     ![v].status = 404, ![v].issuedAt = now]
       ELSE viewer' = [viewer EXCEPT ![v].pc = "read_txt", ![v].id = id,
                                     ![v].content = ReadText(txt[id].data),
                                     ![v].issuedAt = now]
  /\ UNCHANGED <<ping, now, txt, meta, creator, lister>>

\* lines 107-116: without <id>.json the title is the id; else open it "r+",
\* read it and bump the counter
ViewReadMeta(v) ==
  /\ viewer[v].pc = "read_txt"
  /\ IF ~meta[viewer[v].id].exists
     THEN viewer' = [viewer EXCEPT ![v].pc = "done", ![v].status = 200,
                                   ![v].title = IdTitle(viewer[v].id)]
     ELSE LET data == Bump(Loads(meta[viewer[v].id].segs))
          IN viewer' = [viewer EXCEPT ![v].pc = "read_meta", ![v].data = data,
                                      ![v].title = TitleOr(data, viewer[v].id)]
  /\ UNCHANGED <<ping, now, txt, meta, creator, lister>>

\* lines 117-119: truncate() first flushes the document written at offset 0
ViewWriteMeta(v) ==
  /\ viewer[v].pc = "read_meta"
  /\ meta' = [meta EXCEPT ![viewer[v].id].segs = Overlay(@, viewer[v].data)]
  /\ viewer' = [viewer EXCEPT ![v].pc = "written"]
  /\ UNCHANGED <<ping, now, txt, creator, lister>>

\* line 119: then cuts the file at the end of that document; lines 120-125
ViewTruncate(v) ==
  /\ viewer[v].pc = "written"
  /\ meta' = [meta EXCEPT ![viewer[v].id].segs = Truncate(@, JsonLen(viewer[v].data))]
  /\ viewer' = [viewer EXCEPT ![v].pc = "done", ![v].status = 200,
                              ![v].data = EmptyDoc]
  /\ UNCHANGED <<ping, now, txt, creator, lister>>

(* ---------------- top_pastes, recent_pastes, list_all_pastes ---------------- *)

\* the order in which the directory lists its entries
DirOrder == <<"o3", "p2", "o0", "o7", "o1", "o9", "p1", "o4", "o6", "o2", "o8", "o5">>

TxtExists(id) == txt[id].exists
MetaExists(id) == meta[id].exists

\* glob.glob("pastes/*.txt"), glob.glob("pastes/*.json")
GlobTxt == SelectSeq(DirOrder, TxtExists)
\* GlobJson that reports names with no file behind them
GlobJsonUnfiltered == DirOrder
GlobJson == SelectSeq(DirOrder, MetaExists)

\* os.path.getsize, os.path.getmtime
GetSize(id) == ByteLen(txt[id].data)
GetMtime(id) == txt[id].mtime

\* sorted(..., reverse=True) is stable: equal keys keep their order
RECURSIVE InsertDesc(_, _)
InsertDesc(x, s) ==
  IF s = <<>> THEN <<x>>
  ELSE IF Head(s).key <= x.key THEN <<x>> \o s
       ELSE <<Head(s)>> \o InsertDesc(x, Tail(s))

RECURSIVE SortDesc(_)
SortDesc(s) == IF s = <<>> THEN <<>> ELSE InsertDesc(Head(s), SortDesc(Tail(s)))

\* [:10]
FirstN(s, n) == SubSeq(s, 1, IF Len(s) < n THEN Len(s) ELSE n)

IdsOf(s) == [i \in 1..Len(s) |-> s[i].id]

\* TopFiles without reverse=True
TopFilesAscending ==
  FirstN(IdsOf(SortDesc([i \in 1..Len(GlobTxt) |->
            [id |-> GlobTxt[i], key |-> 0 - GetSize(GlobTxt[i])]])), TopN)

\* line 72
TopFiles ==
  FirstN(IdsOf(SortDesc([i \in 1..Len(GlobTxt) |->
            [id |-> GlobTxt[i], key |-> GetSize(GlobTxt[i])]])), TopN)

\* RecentFiles with the key of top_pastes
RecentFilesBySize ==
  FirstN(IdsOf(SortDesc([i \in 1..Len(GlobTxt) |->
            [id |-> GlobTxt[i], key |-> GetSize(GlobTxt[i])]])), TopN)

\* line 131
RecentFiles ==
  FirstN(IdsOf(SortDesc([i \in 1..Len(GlobTxt) |->
            [id |-> GlobTxt[i], key |-> GetMtime(GlobTxt[i])]])), TopN)

IdleLister == [pc |-> "idle", kind |-> "", files |-> <<>>, result |-> <<>>]

Scan(l, kind, files) ==
  lister' = [lister EXCEPT ![l] =
     [pc |-> IF files = <<>> THEN "done" ELSE "scan", kind |-> kind,
      files |-> files, result |-> <<>>]]

\* lines 71-72
TopSort(l) ==
  /\ lister[l].pc = "idle"
  /\ Scan(l, "top", TopFiles)
  /\ UNCHANGED <<ping, now, txt, meta, creator, viewer>>

\* lines 130-131
RecentSort(l) ==
  /\ lister[l].pc = "idle"
  /\ Scan(l, "recent", RecentFiles)
  /\ UNCHANGED <<ping, now, txt, meta, creator, viewer>>

\* line 156
AllGlob(l) ==
  /\ lister[l].pc = "idle"
  /\ Scan(l, "all", GlobJson)
  /\ UNCHANGED <<ping, now, txt, meta, creator, viewer>>

\* lines 79-88 and 138-147
Info(pid) ==
  IF meta[pid].exists /\ Parses(meta[pid].segs)
  THEN [id |-> pid, title |-> TitleOr(meta[pid].segs[1].doc, pid),
        views |-> Get(meta[pid].segs[1].doc, "views", 0)]
  ELSE [id |-> pid, title |-> IdTitle(pid), views |-> 0]

\* lines 158-172
Entry(pid) ==
  LET m == Loads(meta[pid].segs)
  IN [id |-> pid, title |-> Get(m, "title", IdTitle(pid)),
      syntax |-> Get(m, "syntax", "none"),
      visibility |-> Get(m, "visibility", "public"),
      expires |-> "never",
      created_at |-> Get(m, "created_at", 0),
      views |-> Get(m, "views", 0)]

Listed(l, e) ==
  lister' = [lister EXCEPT ![l].result = Append(@, e),
                           ![l].files = Tail(@),
                           ![l].pc = IF Len(lister[l].files) = 1 THEN "done" ELSE "scan"]

\* lines 75-90 and 134-149: one turn of the loop
InfoEntry(l) ==
  /\ lister[l].pc = "scan"
  /\ lister[l].kind \in {"top", "recent"}
  /\ Listed(l, Info(Head(lister[l].files)))
  /\ UNCHANGED <<ping, now, txt, meta, creator, viewer>>

\* lines 156-173: one turn of the loop
AllEntry(l) ==
  /\ lister[l].pc = "scan"
  /\ lister[l].kind = "all"
  /\ Listed(l, Entry(Head(lister[l].files)))
  /\ UNCHANGED <<ping, now, txt, meta, creator, viewer>>

(* ---------------- schedule_ping_task ---------------- *)

\* what a request to SERVICE_URL/ping can come back with: status 200, another
\* status, or an exception (connection error, the 5 second timeout)
Outcomes == {"ok", "bad", "exc"}

\* line 188: the task exists and has not run yet
StartPing == [pc |-> "start", last |-> "none"]

\* lines 180-183 and 187: enter the client, or wake from sleep(10) and go
\* round the loop, and send the request
PingGet ==
  /\ ping.pc \in {"start", "sleep"}
  /\ ping' = [ping EXCEPT !.pc = "get"]
  /\ UNCHANGED <<now, txt, meta, creator, viewer, lister>>

\* PingReply where an exception leaves the loop
PingReplyRaises ==
  /\ ping.pc = "get"
  /\ \E o \in Outcomes :
       ping' = [pc |-> IF o = "exc" THEN "stopped" ELSE "sleep", last |-> o]
  /\ UNCHANGED <<now, txt, meta, creator, viewer, lister>>

\* lines 183-187: the response or the exception arrives, is printed when it
\* is not a 200, and the loop goes to sleep
PingReply ==
  /\ ping.pc = "get"
  /\ \E o \in Outcomes :
       ping' = [pc |-> "sleep", last |-> o]
  /\ UNCHANGED <<now, txt, meta, creator, viewer, lister>>

(* ---------------- the clock ---------------- *)

Tick ==
  /\ now < MaxTime
  /\ now' = now + 1
  /\ UNCHANGED <<ping, txt, meta, creator, viewer, lister>>

(* ---------------- specifications ---------------- *)

\* the directory is empty when the service starts for the first time
EmptyStore ==
  /\ txt = [id \in Ids |-> NoTxt]
  /\ meta = [id \in Ids |-> NoMeta]

OldContent(id) ==
  IF id = "o0" THEN <<"euro">>
  ELSE IF id \in {"o1", "o2", "o3", "o4", "o5"} THEN <<"a", "a">>
  ELSE <<"a">>

\* they were written one after another before this run started
OldMtime(id) == IF id \in {"o1", "o3", "o5", "o7", "o9"} THEN 0 ELSE -1

\* the directory holds the pastes of an earlier run
OldStore ==
  /\ txt = [id \in Ids |->
             IF id \in OldIds
             THEN [exists |-> TRUE, data |-> WriteText(OldContent(id)),
                   mtime |-> OldMtime(id)]
             ELSE NoTxt]
  /\ meta = [id \in Ids |->
              IF id \in OldIds
              THEN [exists |-> TRUE,
                    segs |-> Overlay(<<>>, NewMeta(<<"t">>, "never", OldMtime(id)))]
              ELSE NoMeta]

Idle ==
  /\ now = 1
  /\ creator = [c \in Creators |-> IdleCreator]
  /\ viewer = [v \in Viewers |-> IdleViewer]
  /\ lister = [l \in Listers |-> IdleLister]
  /\ ping = StartPing

Init == Idle /\ EmptyStore

InitOld == Idle /\ OldStore

CreateStep(c) ==
  \/ CreateOpenTxt(c)
  \/ CreateWriteTxt(c)
  \/ CreateOpenMeta(c)
  \/ CreateWriteMeta(c)

ViewStep(v) ==
  \/ ViewReadTxt(v)
  \/ ViewReadMeta(v)
  \/ ViewWriteMeta(v)
  \/ ViewTruncate(v)

TopStep(l) ==
  \/ TopSort(l)
  \/ InfoEntry(l)

RecentStep(l) ==
  \/ RecentSort(l)
  \/ InfoEntry(l)

ListStep(l) ==
  \/ TopSort(l)
  \/ RecentSort(l)
  \/ AllGlob(l)
  \/ InfoEntry(l)
  \/ AllEntry(l)

\* one create racing two views
Next ==
  \/ (\E c \in {"c1"} : CreateStep(c))
  \/ (\E v \in Viewers : ViewStep(v))
  \/ Tick

Spec == Init /\ [][Next]_vars

\* one create, one view and one listing
NextServe ==
  \/ (\E c \in {"c1"} : CreateStep(c))
  \/ (\E v \in {"v1"} : ViewStep(v))
  \/ \E l \in Listers : ListStep(l)
  \/ Tick

SpecServe == Init /\ [][NextServe]_vars

\* two creates and one listing
NextList ==
  \/ (\E c \in Creators : CreateStep(c))
  \/ \E l \in Listers : ListStep(l)
  \/ Tick

SpecList == Init /\ [][NextList]_vars

\* two creates and /api/recent over the pastes of an earlier run
NextRecent ==
  \/ (\E c \in Creators : CreateStep(c))
  \/ \E l \in Listers : RecentStep(l)
  \/ Tick

SpecRecent == InitOld /\ [][NextRecent]_vars

\* two creates and /api/top over the pastes of an earlier run
NextTop ==
  \/ (\E c \in Creators : CreateStep(c))
  \/ \E l \in Listers : TopStep(l)
  \/ Tick

SpecTop == InitOld /\ [][NextTop]_vars

\* no handler is between two of its steps
NoneInFlight ==
  /\ \A c \in Creators : creator[c].pc \in {"idle", "done"}
  /\ \A v \in Viewers : viewer[v].pc \in {"idle", "done"}
  /\ \A l \in Listers : lister[l].pc \in {"idle", "done"}

\* a client that sends a request only after the previous one was answered
CreateAlone(c) == NoneInFlight /\ CreateOpenTxt(c)
ViewAlone(v) == NoneInFlight /\ ViewReadTxt(v)

\* one create and two views, one request after another
NextSeq ==
  \/ \E c \in {"c1"} :
        \/ CreateAlone(c)
        \/ CreateWriteTxt(c)
        \/ CreateOpenMeta(c)
        \/ CreateWriteMeta(c)
  \/ \E v \in Viewers :
        \/ ViewAlone(v)
        \/ ViewReadMeta(v)
        \/ ViewWriteMeta(v)
        \/ ViewTruncate(v)
  \/ Tick

SpecSeq == Init /\ [][NextSeq]_vars

\* the ping task next to one create and one view
NextPing ==
  \/ PingGet
  \/ PingReply
  \/ \E c \in {"c1"} : CreateStep(c)
  \/ \E v \in {"v1"} : ViewStep(v)
  \/ Tick

\* the event loop runs every task that is ready: sleep(10) expires, and a
\* request ends with a response or, after 5 seconds at most, a timeout
SpecPing ==
  /\ Init
  /\ [][NextPing]_vars
  /\ WF_vars(PingGet)
  /\ WF_vars(PingReply)

(* ---------------- what a reader of the store sees ---------------- *)

\* <id>.json holds a complete metadata document
HasRecord(id) ==
  /\ meta[id].exists
  /\ Parses(meta[id].segs)
  /\ "title" \in DOMAIN meta[id].segs[1].doc

\* obj.get("views", 0) of the stored document, 0 when there is none
StoredViews(id) ==
  IF meta[id].exists /\ Parses(meta[id].segs)
  THEN Get(meta[id].segs[1].doc, "views", 0)
  ELSE 0

Quiet ==
  /\ \A c \in Creators : creator[c].pc \in {"idle", "done"}
  /\ \A v \in Viewers : viewer[v].pc \in {"idle", "done"}
  /\ \A l \in Listers : lister[l].pc \in {"idle", "done"}

Served(v) == viewer[v].pc = "done" /\ viewer[v].status = 200

Range(s) == {s[i] : i \in 1..Len(s)}

(* ---------------- claims ---------------- *)

\* C1: create is all-or-nothing for readers: a view that is served and
\* every entry a listing returns for the id of a create shows the complete
\* record of that create (the content as a view reads it back and the title
\* as the handler shows it), never a content whose metadata is missing or
\* half written.
C1_AllOrNothing ==
  \A c \in Creators : creator[c].pc # "idle" =>
    LET content == ReadText(WriteText(creator[c].content))
        shown == IF creator[c].title = <<>> THEN IdTitle(creator[c].id)
                 ELSE creator[c].title
    IN /\ \A v \in Viewers : (Served(v) /\ viewer[v].id = creator[c].id) =>
              viewer[v].content = content /\ viewer[v].title = shown
       /\ \A l \in Listers : \A i \in 1..Len(lister[l].result) :
              lister[l].result[i].id = creator[c].id =>
                 lister[l].result[i].title =
                    (IF lister[l].kind = "all" THEN creator[c].title ELSE shown)

\* C2: the views counter stored in <id>.json never decreases.
C2_ViewsNonDecreasing ==
  [][\A id \in NewIds :
       (meta[id].exists /\ Parses(meta[id].segs) /\ Parses(meta'[id].segs))
          => StoredViews(id)' >= StoredViews(id)]_vars

\* C3: once a view of a created paste has been served and no request is in
\* flight, the stored views counter is at least 1.
C3_ViewsReflectARead ==
  Quiet =>
    \A v \in Viewers, c \in Creators :
       (Served(v) /\ creator[c].status = 200 /\ creator[c].id = viewer[v].id)
          => StoredViews(viewer[v].id) >= 1

\* C4: create_paste never takes an id whose content file already exists.
C4_UniqueIds ==
  [][\A c \in Creators :
       (creator[c].pc = "idle" /\ creator'[c].pc = "txt_open")
          => ~txt[creator'[c].id].exists]_vars

\* C5 as stated: a view issued after created_at + 1s of a paste (any create
\* may have carried the expires token "1s") answers 404.
C5_ExpiredNotServed ==
  \A v \in Viewers :
     (/\ viewer[v].pc = "done"
      /\ HasRecord(viewer[v].id)
      /\ viewer[v].issuedAt > meta[viewer[v].id].segs[1].doc.created_at + 1)
        => viewer[v].status = 404

\* C5 amended: whatever expires token the client sent, the paste is stored
\* with expires "never", and a view issued at any time after its created_at,
\* also later than created_at + 1s, is served.
C5_NeverExpires ==
  /\ \A id \in Ids :
        (meta[id].exists /\ Parses(meta[id].segs)
           /\ "expires" \in DOMAIN meta[id].segs[1].doc)
          => meta[id].segs[1].doc.expires = "never"
  /\ \A c \in Creators : creator[c].pc # "idle" => creator[c].expires = "never"
  /\ \A v \in Viewers :
        (/\ viewer[v].pc = "done"
         /\ HasRecord(viewer[v].id)
         /\ viewer[v].issuedAt > meta[viewer[v].id].segs[1].doc.created_at)
           => viewer[v].status = 200

\* a view issued later than created_at + 1s was served
C5_Witness ==
  \E v \in Viewers, c \in Creators :
     /\ creator[c].status = 200
     /\ creator[c].id = viewer[v].id
     /\ Served(v)
     /\ HasRecord(viewer[v].id)
     /\ viewer[v].issuedAt > meta[viewer[v].id].segs[1].doc.created_at + 1

\* C6: a view of the id of a completed create reads back exactly the content
\* and the title that were submitted.
C6_RoundTrip ==
  [][\A v \in Viewers, c \in Creators :
       (creator[c].pc = "done" /\ creator[c].status = 200) =>
          /\ (viewer[v].pc = "idle" /\ viewer'[v].pc # "idle"
                 /\ viewer'[v].id = creator[c].id)
               => (viewer'[v].status # 404
                     /\ viewer'[v].content = creator[c].content)
          /\ (viewer[v].pc = "read_txt" /\ viewer'[v].pc # "read_txt"
                 /\ viewer[v].id = creator[c].id)
               => viewer'[v].title = creator[c].title]_vars

\* C7 as stated: /api/recent lists at most 10 ids in non-increasing order of
\* the created_at recorded in their metadata, and omits no paste with a
\* later created_at than a listed one.
C7_RecentByCreatedAt ==
  [][\A l \in Listers :
       (lister[l].pc = "idle" /\ lister'[l].kind = "recent") =>
          LET files == lister'[l].files
              at(id) == meta[id].segs[1].doc.created_at
          IN /\ Len(files) <= TopN
             /\ \A i, j \in 1..Len(files) :
                   (i < j /\ HasRecord(files[i]) /\ HasRecord(files[j]))
                      => at(files[i]) >= at(files[j])
             /\ \A id \in Ids, i \in 1..Len(files) :
                   (TxtExists(id) /\ id \notin Range(files)
                      /\ HasRecord(id) /\ HasRecord(files[i]))
                      => at(files[i]) >= at(id)]_vars

\* C7 amended: /api/recent lists at most 10 ids of existing content files,
\* each once, in non-increasing order of the modification time of the
\* content file; it omits a content file only when 10 are listed, and none
\* with a later modification time than a listed one.
C7_RecentByMtime ==
  [][\A l \in Listers :
       (lister[l].pc = "idle" /\ lister'[l].kind = "recent") =>
          LET files == lister'[l].files
          IN /\ Len(files) <= TopN
             /\ \A i \in 1..Len(files) : TxtExists(files[i])
             /\ \A i, j \in 1..Len(files) :
                   i < j => (files[i] # files[j]
                              /\ GetMtime(files[i]) >= GetMtime(files[j]))
             /\ \A id \in Ids :
                   (TxtExists(id) /\ id \notin Range(files)) =>
                      /\ Len(files) = TopN
                      /\ \A i \in 1..Len(files) :
                            GetMtime(files[i]) >= GetMtime(id)]_vars

\* /api/recent returned 10 entries, both new pastes among them, and left
\* older ones out
C7_Witness ==
  \E l \in Listers :
     /\ lister[l].pc = "done"
     /\ lister[l].kind = "recent"
     /\ Len(lister[l].result) = TopN
     /\ lister[l].result[1].id \in NewIds
     /\ lister[l].result[2].id \in NewIds
     /\ \E id \in OldIds :
           \A i \in 1..TopN : lister[l].result[i].id # id

\* C8 as stated: /api/top lists at most 10 ids in non-increasing order of
\* the length of their content, and omits no paste with a longer content
\* than a listed one.
C8_TopByContentLength ==
  [][\A l \in Listers :
       (lister[l].pc = "idle" /\ lister'[l].kind = "top") =>
          LET files == lister'[l].files
              length(id) == Len(txt[id].data)
          IN /\ Len(files) <= TopN
             /\ \A i, j \in 1..Len(files) :
                   i < j => length(files[i]) >= length(files[j])
             /\ \A id \in Ids, i \in 1..Len(files) :
                   (TxtExists(id) /\ id \notin Range(files))
                      => length(files[i]) >= length(id)]_vars

\* C8 amended: /api/top lists at most 10 ids of existing content files, each
\* once, in non-increasing order of the size in bytes of the content file;
\* it omits a content file only when 10 are listed, and none that is larger
\* than a listed one.
C8_TopByFileSize ==
  [][\A l \in Listers :
       (lister[l].pc = "idle" /\ lister'[l].kind = "top") =>
          LET files == lister'[l].files
          IN /\ Len(files) <= TopN
             /\ \A i \in 1..Len(files) : TxtExists(files[i])
             /\ \A i, j \in 1..Len(files) :
                   i < j => (files[i] # files[j]
                              /\ GetSize(files[i]) >= GetSize(files[j]))
             /\ \A id \in Ids :
                   (TxtExists(id) /\ id \notin Range(files)) =>
                      /\ Len(files) = TopN
                      /\ \A i \in 1..Len(files) :
                            GetSize(files[i]) >= GetSize(id)]_vars

\* /api/top returned 10 entries with a new paste among them and left a
\* smaller one out
C8_Witness ==
  \E l \in Listers :
     /\ lister[l].pc = "done"
     /\ lister[l].kind = "top"
     /\ Len(lister[l].result) = TopN
     /\ \E i \in 1..TopN : lister[l].result[i].id \in NewIds
     /\ \E id \in OldIds :
           \A i \in 1..TopN : lister[l].result[i].id # id

\* C9: a step of a view or of a listing changes nothing of a stored paste
\* but its views counter: content, title, syntax, visibility and created_at
\* stay as the create wrote them.
C9_OnlyViewsMutated ==
  [][creator' = creator =>
       \A id \in NewIds :
          /\ txt'[id].data = txt[id].data
          /\ HasRecord(id) =>
                /\ HasRecord(id)'
                /\ \A k \in {"title", "syntax", "visibility", "created_at"} :
                      meta'[id].segs[1].doc[k] = meta[id].segs[1].doc[k]]_vars

\* C10: the body of a 500 response of create_paste does not carry the text
\* of the exception.
C10_GenericError ==
  \A c \in Creators :
     creator[c].status = 500 => creator[c].details \notin Errors

\* C11: a view of an id that no create has touched (neither file exists)
\* answers 404 and leaves every content and metadata file, and with them
\* every views counter, as it was.
C11_MissingIs404 ==
  [][\A v \in Viewers :
       (/\ viewer[v].pc = "idle"
        /\ viewer'[v].pc # "idle"
        /\ ~txt[viewer'[v].id].exists
        /\ ~meta[viewer'[v].id].exists)
         => (/\ viewer'[v].pc = "done"
             /\ viewer'[v].status = 404
             /\ txt' = txt
             /\ meta' = meta)]_vars

\* a view of an id without files answered 404 while another paste is stored
C11_Witness ==
  \E v \in Viewers, c \in Creators :
     /\ viewer[v].pc = "done"
     /\ viewer[v].status = 404
     /\ ~txt[viewer[v].id].exists
     /\ ~meta[viewer[v].id].exists
     /\ creator[c].status = 200
     /\ HasRecord(creator[c].id)

\* C12: creates that received distinct ids do not corrupt each other: under
\* every interleaving of their steps, once a create has written its content
\* the content file of its id holds that content, and once it has answered
\* 200 the metadata file of its id holds the document of its own request.
C12_DistinctIdsIntact ==
  \A c, d \in Creators :
     (c # d /\ creator[d].pc # "idle" /\ creator[c].id # creator[d].id) =>
        /\ (creator[c].pc \in {"txt_closed", "meta_open"} \/ creator[c].status = 200)
             => (/\ txt[creator[c].id].exists
                 /\ txt[creator[c].id].data = WriteText(creator[c].content))
        /\ creator[c].status = 200
             => (/\ HasRecord(creator[c].id)
                 /\ meta[creator[c].id].segs[1].doc.title = creator[c].title
                 /\ meta[creator[c].id].segs[1].doc.syntax = "none"
                 /\ meta[creator[c].id].segs[1].doc.visibility = "public"
                 /\ meta[creator[c].id].segs[1].doc.expires = "never"
                 /\ meta[creator[c].id].segs[1].doc.views = 0)

\* two creates with distinct ids and distinct forms overlapped (the first
\* wrote its content before the second did and took its created_at after
\* the second) and both answered 200
C12_Witness ==
  \E c, d \in Creators :
     /\ creator[c].status = 200
     /\ creator[d].status = 200
     /\ creator[c].id # creator[d].id
     /\ creator[c].content # creator[d].content
     /\ HasRecord(creator[c].id)
     /\ HasRecord(creator[d].id)
     /\ txt[creator[c].id].mtime < txt[creator[d].id].mtime
     /\ meta[creator[d].id].segs[1].doc.created_at
          < meta[creator[c].id].segs[1].doc.created_at

\* C13: pastes are never deleted: a view that starts when a view of the same
\* id has already been served does not answer 404, whatever creates and
\* views ran or are running.
C13_ServedStaysServed ==
  [][\A v, w \in Viewers :
       (/\ Served(w)
        /\ viewer[v].pc = "idle"
        /\ viewer'[v].pc # "idle"
        /\ viewer'[v].id = viewer[w].id)
         => viewer'[v].status # 404]_vars

\* two views of one id were served, the one issued later after the first had
\* counted
C13_Witness ==
  \E v, w \in Viewers :
     /\ Served(w)
     /\ Served(v)
     /\ viewer[v].id = viewer[w].id
     /\ viewer[v].issuedAt > viewer[w].issuedAt
     /\ StoredViews(viewer[v].id) = 2

\* C15: without overlapping requests the counter is exact: after a create
\* that answered 200, followed by k views of its id served one after
\* another, the stored views value is k.
C15_ExactWhenSequential ==
  \A c \in Creators :
     (Quiet /\ creator[c].status = 200) =>
        StoredViews(creator[c].id) =
           Cardinality({v \in Viewers : Served(v) /\ viewer[v].id = creator[c].id})

\* a create and two views of its id ran one after another
C15_Witness ==
  \E c \in Creators :
     /\ Quiet
     /\ creator[c].status = 200
     /\ \A v \in Viewers : Served(v) /\ viewer[v].id = creator[c].id
     /\ StoredViews(creator[c].id) = 2

\* C16: every listed paste is viewable: every id a listing (/api/top,
\* /api/recent, /api/all) holds in its sorted file list or has put in its
\* answer has a content file, so view_paste does not answer 404 for it, also
\* while a create is in flight and after a create failed partway.
C16_ListedIsViewable ==
  \A l \in Listers :
     /\ \A i \in 1..Len(lister[l].result) : Found(lister[l].result[i].id)
     /\ \A i \in 1..Len(lister[l].files) : Found(lister[l].files[i])

\* /api/all answered with the id of a create that failed after it had opened
\* the metadata file
C16_Witness ==
  \E l \in Listers, c \in Creators :
     /\ lister[l].pc = "done"
     /\ lister[l].kind = "all"
     /\ creator[c].status = 500
     /\ creator[c].id \in {lister[l].result[i].id : i \in 1..Len(lister[l].result)}

\* C17: the health ping loop never stops and never touches paste data: no
\* step of the loop changes a content or metadata file, a request is sent
\* again and again, and in particular after a ping that raised or came back
\* with a status other than 200 the loop sends another one.
C17_PingLoopGoesOn ==
  /\ [][ping' # ping => (txt' = txt /\ meta' = meta)]_vars
  /\ []<>(ping.pc = "get")
  /\ []((ping.pc = "sleep" /\ ping.last \in {"bad", "exc"}) => <>(ping.pc = "get"))

\* a request is on its way after the one before it failed, with a paste
\* stored and viewed meanwhile
C17_Witness ==
  /\ ping.pc = "get"
  /\ ping.last \in {"bad", "exc"}
  /\ \E v \in Viewers : Served(v)

====
